---- MODULE Spec2Model ----
(***************************************************************************)
(* A model of facemation's caching pipeline.                               *)
(*                                                                         *)
(*   * Cache (src/src/main/python/Cache.py): a directory of files named    *)
(*     {prefix}-{key}-{state}{suffix}; has/load look one path up, cache    *)
(*     unlinks every path the glob {prefix}-{key}*{suffix} matches and     *)
(*     then writes the new file.                                           *)
(*   * Pipeline (src/src/main/python/Pipeline.py): register/run with the   *)
(*     three stage lists.                                                  *)
(*   * FindFacesStage and NormalizeStage (src/src/main/python/stages/):    *)
(*     face finding per image with the face cache and error_dir, and the   *)
(*     scale / translation / rotation / crop box of a batch, in exact      *)
(*     integer and rational arithmetic.                                    *)
(*   * The task pool of FindFacesStage.process: find_face of every image   *)
(*     of a batch, one step at a time, interleaved.                        *)
(*   * main (src/src/main/python/facemation.py): load_config, the input    *)
(*     validation, the stages and the ffmpeg run.                          *)
(*                                                                         *)
(* File names are sequences of tokens: the prefix and the suffix are one   *)
(* token each, every character of a key or a state is one token.           *)
(***************************************************************************)
EXTENDS Integers, Sequences, FiniteSets, TLC

\* ------------------------------------------------------------------ bounds

\* Longest key handed to the cache.
MaxKeyLen == 2

\* Characters of a key: one ordinary character and the field separator.
KeyChars == {"a", "-"}

\* The states handed to the cache: the empty state (the default argument),
\* one ordinary state and one that holds the field separator.
States == {<<>>, <<"s">>, <<"-">>}

\* The data handed to the cache (a pixel value, an array element).
Data == {0, 1}

\* The most stages registered on one pipeline.
MaxStages == 3

\* The most run() calls made on one pipeline.
MaxRuns == 2

\* The input directories: empty, one or two images, an image and a file
\* that is no image.
InputDirs == {{}, {"img1"}, {"img1", "img2"}, {"img1", "notes"}}

\* The two concrete caches of the program.
Kinds == {"ndarray", "image"}

Keys == UNION {[1..n -> KeyChars] : n \in 1..MaxKeyLen}

\* The processes that call Cache.cache concurrently (worker tasks).
Writers == {"w1", "w2"}

\* The most images in one batch.
MaxBatch == 2

\* The landmark models the detector may load.
Predictors == {"v1", "v2"}

\* The input images: the digest of the bytes, the size, and the faces the
\* detector finds under either landmark model, each face as the pair of its
\* eyes <<left eye, right eye>>.
\*   a.jpg  level eyes, 10 apart            b.jpg  level eyes, 20 apart;
\*   c.jpg  eyes tilted by atan(3/4)               v2 finds them 4 to the left
\*   d.jpg  eyes tilted by atan(4/3)        g.jpg  level eyes; v2 finds them
\*   e.jpg  no face                                1 to the left
\*   f.jpg  two faces                       t.jpg  eyes tilted by -atan(3/4)
Photo ==
    ("a.jpg" :> [hash |-> "ha", dims |-> <<60, 80>>,
                 faces |-> [v \in Predictors |-> << <<<<20, 40>>, <<30, 40>>>> >>]]) @@
    ("b.jpg" :> [hash |-> "hb", dims |-> <<121, 161>>,
                 faces |-> [v \in Predictors |->
                              IF v = "v1" THEN << <<<<40, 60>>, <<60, 60>>>> >>
                                          ELSE << <<<<36, 60>>, <<56, 60>>>> >>]]) @@
    ("c.jpg" :> [hash |-> "hc", dims |-> <<60, 80>>,
                 faces |-> [v \in Predictors |-> << <<<<22, 36>>, <<30, 42>>>> >>]]) @@
    ("d.jpg" :> [hash |-> "hd", dims |-> <<60, 80>>,
                 faces |-> [v \in Predictors |-> << <<<<23, 36>>, <<29, 44>>>> >>]]) @@
    ("e.jpg" :> [hash |-> "he", dims |-> <<60, 80>>,
                 faces |-> [v \in Predictors |-> << >>]]) @@
    ("f.jpg" :> [hash |-> "hf", dims |-> <<120, 160>>,
                 faces |-> [v \in Predictors |->
                              << <<<<20, 40>>, <<40, 40>>>>, <<<<70, 100>>, <<90, 100>>>> >>]]) @@
    ("g.jpg" :> [hash |-> "hg", dims |-> <<60, 80>>,
                 faces |-> [v \in Predictors |->
                              IF v = "v1" THEN << <<<<16, 30>>, <<26, 30>>>> >>
                                          ELSE << <<<<15, 30>>, <<25, 30>>>> >>]]) @@
    ("t.jpg" :> [hash |-> "ht", dims |-> <<100, 80>>,
                 faces |-> [v \in Predictors |-> << <<<<40, 46>>, <<56, 34>>>> >>]])

\* The batches: the images of one input directory.
Batches == {batch \in SUBSET DOMAIN Photo : Cardinality(batch) \in 1..MaxBatch}

\* The face_selection_overrides of the configuration: none, or one for
\* f.jpg that ranks its first or its second face first.
OverrideConfigs == {<<>>, "f.jpg" :> 1, "f.jpg" :> 2}

VARIABLES
    kind,      \* which Cache subclass this instance is
    files,     \* the cache directory: file name -> file content
    last,      \* the last call on the cache, with what it returned
    wpc,       \* per writer: where it is inside Cache.cache
    wjob,      \* per writer: the arguments of its Cache.cache call
    wtodo,     \* per writer: the globbed paths it has still to unlink
    observed,  \* what a concurrent reader last found for one key
    input_dir,       \* the files of the input directory
    preprocessing,   \* Pipeline.preprocessing: the registered stages, in order
    processing,      \* Pipeline.processing
    postprocessing,  \* Pipeline.postprocessing
    ppc,             \* where control is: outside run(), or in one of its phases
    pidx,            \* the index of the phase's next stage
    outcome,         \* how the last run() ended
    runs,            \* the number of run() calls made
    imgs,            \* the record set run() holds: path -> ImageInfo
    trace,           \* the stages the current (or last) run() has called
    call,            \* the last stage call: what it did and returned
    photos,            \* the images of the batch: their paths
    overrides,         \* face_selection_overrides: file name -> the face it ranks first
    predictor,         \* which landmark model the detector loads
    face_cache,        \* FindFacesStage.face_cache: hash -> eyes
    normalized_cache,  \* NormalizeStage.normalized_cache: hash -> state and image
    error_dir,         \* the file names of the error directory
    spc,               \* which stage of the invocation is running
    todo,              \* the images the running stage has still to handle
    img_eyes,          \* imgs[it]["eyes"] of the images handled so far
    solved,            \* what NormalizeStage.process has computed for the batch
    result,            \* how the invocation ended
    raised,            \* the UserExceptions raised: path -> cause
    invocations,       \* the number of invocations started
    detected,          \* the images the detector ran on in this invocation
    applied,           \* the images normalised in this invocation: path -> crop box
    before,            \* how the invocation before this one ended, and the caches
                       \* as this invocation found them
    frames_dir,        \* the frames directory: frame index -> the record linked
    tasks,             \* the tasks of process_map: path -> position and eyes
    cfg_user,          \* config.py next to the executable ({} if there is none)
    cfg_dev,           \* config_dev.py of the working directory ({} if none)
    ffmpeg,            \* shutil.which("ffmpeg") finds the executable
    jpgs,              \* what the globs of main find in the input directory
    cfg,               \* the configuration main has loaded
    mpc,               \* where main is
    output_path,       \* the file at cfg["output_path"]
    stderr,            \* what main has printed on stderr
    exception,         \* the exception main's run has raised
    exit_status,       \* the exit status of the interpreter (-1: none yet)
    mains              \* the number of times the program was started

cacheVars == <<kind, files, last>>

concVars == <<wpc, wjob, wtodo, observed>>

stageLists == <<preprocessing, processing, postprocessing>>

pipeVars == <<input_dir, preprocessing, processing, postprocessing, ppc, pidx,
              outcome, runs, imgs, trace, call, frames_dir>>

stageVars == <<photos, overrides, predictor, face_cache, normalized_cache,
               error_dir, spc, todo, img_eyes, solved, result, raised,
               invocations, detected, applied, before>>

mainVars == <<cfg_user, cfg_dev, ffmpeg, jpgs, cfg, mpc, output_path, stderr,
              exception, exit_status, mains>>

vars == <<kind, files, last, wpc, wjob, wtodo, observed, input_dir,
          preprocessing, processing, postprocessing, ppc, pidx, outcome, runs,
          imgs, trace, call, photos, overrides, predictor, face_cache,
          normalized_cache, error_dir, spc, todo, img_eyes, solved, result,
          raised, invocations, detected, applied, before, frames_dir, tasks,
          cfg_user, cfg_dev, ffmpeg, jpgs, cfg, mpc, output_path, stderr,
          exception, exit_status, mains>>

\* ------------------------------------------------------------------- Cache

\* Cache.__init__: self.prefix / self.suffix, as the program constructs them.
prefix == IF kind = "ndarray" THEN "face" ELSE "normalized"

suffix == IF kind = "ndarray" THEN ".cache" ELSE ".jpg"

\* "-" in key
HasSeparator(str) == \E i \in 1..Len(str) : str[i] = "-"

\* Cache.path: f"{directory}/{prefix}-{key}-{state}{suffix}"
path(key, state) == <<prefix, "-">> \o key \o <<"-">> \o state \o <<suffix>>

\* fnmatch of a file name against f"{prefix}-{key}*{suffix}"
GlobMatch(name, key) ==
    LET pre == <<prefix, "-">> \o key
    IN  /\ Len(name) >= Len(pre) + 1
        /\ SubSeq(name, 1, Len(pre)) = pre
        /\ name[Len(name)] = suffix

\* A glob that names the empty state instead of "*": only the entry of the
\* default state is found.
path_all_default_state(fs, key) ==
    {name \in DOMAIN fs : name = <<prefix, "-">> \o key \o <<"-", suffix>>}

\* Cache.path_all: glob.glob(f"{directory}/{prefix}-{key}*{suffix}")
path_all(fs, key) == {name \in DOMAIN fs : GlobMatch(name, key)}

\* A lookup that globs for the key when no state is given (has_any of the
\* earlier Cache).
has_any_state(fs, key, state) ==
    IF state = <<>>
    THEN \E name \in DOMAIN fs : GlobMatch(name, key)
    ELSE <<prefix, "-">> \o key \o <<"-">> \o state \o <<suffix>> \in DOMAIN fs

\* Cache.has: self.path(key, state).exists()
has(fs, key, state) == path(key, state) \in DOMAIN fs

\* A cache that saves every datum through the lossy image codec.
_write_data_lossy(data) == [fmt |-> "jpeg", payload |-> data - (data % 2)]

\* ImageCache._write_data saves a JPEG (the suffix is ".jpg"): a lossy codec,
\* modelled as dropping the least significant bit of the pixel value.
\* NdarrayCache._write_data pickles the array.
_write_data(data) ==
    IF kind = "image"
    THEN [fmt |-> "jpeg", payload |-> data - (data % 2)]
    ELSE [fmt |-> "pickle", payload |-> data]

\* ImageCache._read_data / NdarrayCache._read_data: decode what the file holds.
_read_data(content) == content.payload

\* The directory after unlinking `names`.
Unlink(fs, names) == [name \in (DOMAIN fs) \ names |-> fs[name]]

\* The directory after writing `content` to `name`.
WriteFile(fs, name, content) ==
    [n \in (DOMAIN fs) \cup {name} |-> IF n = name THEN content ELSE fs[n]]

\* Cache.cache, the file system it leaves: validation, then unlink of every
\* path of path_all(key), then the write of path(key, state).
cache_raises(key, state) == HasSeparator(key) \/ HasSeparator(state)

\* The state validated only when the path is built for the write, after the
\* unlinks.
cache_files_late_validation(fs, data, key, state) ==
    IF HasSeparator(key)
    THEN fs
    ELSE IF HasSeparator(state)
         THEN [name \in (DOMAIN fs) \ path_all(fs, key) |-> fs[name]]
         ELSE [n \in ((DOMAIN fs) \ path_all(fs, key)) \cup {path(key, state)} |->
                  IF n = path(key, state) THEN _write_data(data) ELSE fs[n]]

\* The write before the unlinks: the glob then finds the new file too.
cache_files_write_first(fs, data, key, state) ==
    IF HasSeparator(key) \/ HasSeparator(state)
    THEN fs
    ELSE LET written == [n \in (DOMAIN fs) \cup {path(key, state)} |->
                            IF n = path(key, state) THEN _write_data(data) ELSE fs[n]]
         IN  [name \in (DOMAIN written) \ path_all(written, key) |-> written[name]]

cache_files(fs, data, key, state) ==
    IF cache_raises(key, state)
    THEN fs
    ELSE WriteFile(Unlink(fs, path_all(fs, key)), path(key, state), _write_data(data))

\* The paths one call of Cache.cache unlinks (its for loop over path_all).
cache_unlinks(fs, key, state) ==
    IF cache_raises(key, state) THEN {} ELSE path_all(fs, key)

NoCall == [op |-> "none", key |-> <<>>, state |-> <<>>, data |-> 0,
           raised |-> FALSE, found |-> FALSE, val |-> 0, unlinked |-> {}]

\* Cache.cache(data, key, state)
cache(data, key, state) ==
    /\ files' = cache_files(files, data, key, state)
    /\ last' = [op |-> "cache", key |-> key, state |-> state, data |-> data,
                raised |-> cache_raises(key, state), found |-> FALSE, val |-> 0,
                unlinked |-> cache_unlinks(files, key, state)]
    /\ UNCHANGED kind

\* Cache.has(key, state)
has_call(key, state) ==
    /\ last' = [op |-> "has", key |-> key, state |-> state, data |-> 0,
                raised |-> FALSE, found |-> has(files, key, state), val |-> 0,
                unlinked |-> {}]
    /\ UNCHANGED <<kind, files>>

\* Cache.load(key, state): raises when the path does not exist.
load(key, state) ==
    /\ last' = [op |-> "load", key |-> key, state |-> state, data |-> 0,
                raised |-> path(key, state) \notin DOMAIN files,
                found |-> FALSE,
                val |-> IF path(key, state) \in DOMAIN files
                        THEN _read_data(files[path(key, state)])
                        ELSE 0,
                unlinked |-> {}]
    /\ UNCHANGED <<kind, files>>

CacheInit ==
    /\ kind \in Kinds
    /\ files = <<>>
    /\ last = NoCall

NoJob == [data |-> 0, key |-> <<>>, state |-> <<>>]

NothingObserved == {}

ConcInit ==
    /\ wpc = [w \in Writers |-> "idle"]
    /\ wjob = [w \in Writers |-> NoJob]
    /\ wtodo = [w \in Writers |-> {}]
    /\ observed = NothingObserved

NoStageCall == [stage |-> 0, kind |-> "none", tamper |-> "none", returned |-> <<>>]

\* Pipeline.__init__: three empty lists.
PipelineInit ==
    /\ preprocessing = <<>>
    /\ processing = <<>>
    /\ postprocessing = <<>>
    /\ ppc = "idle"
    /\ pidx = 0
    /\ outcome = "none"
    /\ runs = 0
    /\ imgs = <<>>
    /\ trace = <<>>
    /\ call = NoStageCall
    /\ frames_dir = <<>>

\* The program has not been started: nothing is loaded, nothing printed, no
\* exit status.
MainInit ==
    /\ cfg = <<>>
    /\ mpc = "idle"
    /\ output_path = "absent"
    /\ stderr = "none"
    /\ exception = "none"
    /\ exit_status = -1
    /\ mains = 0

\* No program and no worker pool.
NoProgram ==
    /\ MainInit
    /\ cfg_user = <<>>
    /\ cfg_dev = <<>>
    /\ ffmpeg = TRUE
    /\ jpgs = "none"
    /\ tasks = <<>>

\* NormalizeStage.process has not computed anything yet.
NoSolution == [made |-> FALSE]

NoInvocation ==
    [result |-> "none", img_eyes |-> <<>>, predictor |-> "v1", face_cache |-> <<>>,
     normalized_cache |-> <<>>]

\* The caches and the error directory as a first invocation finds them, and
\* no invocation started.
StagesInit ==
    /\ predictor = "v1"
    /\ face_cache = <<>>
    /\ normalized_cache = <<>>
    /\ error_dir = {}
    /\ spc = "idle"
    /\ todo = {}
    /\ img_eyes = <<>>
    /\ solved = NoSolution
    /\ result = "none"
    /\ raised = <<>>
    /\ invocations = 0
    /\ detected = {}
    /\ applied = <<>>
    /\ before = NoInvocation

Store ==
    /\ \E data \in Data, key \in Keys, state \in States : cache(data, key, state)
    /\ UNCHANGED <<concVars, pipeVars, stageVars, mainVars, tasks>>

Has ==
    /\ \E key \in Keys, state \in States : has_call(key, state)
    /\ UNCHANGED <<concVars, pipeVars, stageVars, mainVars, tasks>>

Load ==
    /\ \E key \in Keys, state \in States : load(key, state)
    /\ UNCHANGED <<concVars, pipeVars, stageVars, mainVars, tasks>>

Init ==
    /\ CacheInit /\ ConcInit /\ PipelineInit /\ input_dir = {}
    /\ StagesInit /\ photos = {} /\ overrides = <<>>
    /\ NoProgram

Next == Store \/ Has \/ Load

Spec == Init /\ [][Next]_vars

\* ------------------------------------------- Cache.cache, step by step

\* A file that _write_data has opened for writing and not yet filled.
PartialFile == [fmt |-> "partial", payload |-> 0]

\* The datum the concurrent writers store (which files exist does not depend
\* on it).
ConcData == {1}

\* A writer enters Cache.cache and passes the validation. No two callers
\* store under the same key at once (the single-writer-per-key assumption).
ConcStart(w) ==
    \E data \in ConcData, key \in Keys, state \in States :
        /\ wpc[w] = "idle"
        /\ ~cache_raises(key, state)
        /\ \A v \in Writers \ {w} : wpc[v] # "idle" => wjob[v].key # key
        /\ wpc' = [wpc EXCEPT ![w] = "glob"]
        /\ wjob' = [wjob EXCEPT ![w] = [data |-> data, key |-> key, state |-> state]]
        /\ UNCHANGED <<cacheVars, pipeVars, stageVars, mainVars, tasks, wtodo, observed>>

\* self.path_all(key): the glob lists the directory.
ConcGlob(w) ==
    /\ wpc[w] = "glob"
    /\ wtodo' = [wtodo EXCEPT ![w] = path_all(files, wjob[w].key)]
    /\ wpc' = [wpc EXCEPT ![w] = "unlink"]
    /\ UNCHANGED <<cacheVars, pipeVars, stageVars, mainVars, tasks, wjob, observed>>

\* path.unlink() of one globbed path; a path another writer has unlinked
\* meanwhile raises FileNotFoundError and ends the call.
ConcUnlink(w) ==
    /\ wpc[w] = "unlink"
    /\ \E name \in wtodo[w] :
          IF name \in DOMAIN files
          THEN /\ files' = Unlink(files, {name})
               /\ wtodo' = [wtodo EXCEPT ![w] = @ \ {name}]
               /\ UNCHANGED <<wpc, wjob>>
          ELSE /\ wpc' = [wpc EXCEPT ![w] = "idle"]
               /\ wjob' = [wjob EXCEPT ![w] = NoJob]
               /\ wtodo' = [wtodo EXCEPT ![w] = {}]
               /\ UNCHANGED files
    /\ UNCHANGED <<kind, last, pipeVars, stageVars, mainVars, tasks, observed>>

\* The for loop is over: every globbed path has been unlinked.
ConcWriteEnabled_early(w) == wpc[w] = "unlink"

ConcWriteEnabled(w) == wpc[w] = "unlink" /\ wtodo[w] = {}

\* self._write_data(path, data) opens the file at self.path(key, state) ...
ConcWrite(w) ==
    /\ ConcWriteEnabled(w)
    /\ files' = WriteFile(files, path(wjob[w].key, wjob[w].state), PartialFile)
    /\ wpc' = [wpc EXCEPT ![w] = "flush"]
    /\ wtodo' = [wtodo EXCEPT ![w] = {}]
    /\ UNCHANGED <<kind, last, pipeVars, stageVars, mainVars, tasks, wjob, observed>>

\* ... and fills it (a file unlinked meanwhile does not come back).
ConcFlush(w) ==
    /\ wpc[w] = "flush"
    /\ files' = IF path(wjob[w].key, wjob[w].state) \in DOMAIN files
                THEN WriteFile(files, path(wjob[w].key, wjob[w].state),
                               _write_data(wjob[w].data))
                ELSE files
    /\ wpc' = [wpc EXCEPT ![w] = "idle"]
    /\ wjob' = [wjob EXCEPT ![w] = NoJob]
    /\ UNCHANGED <<kind, last, pipeVars, stageVars, mainVars, tasks, wtodo, observed>>

\* A reader probes one key: Cache.has(key, state) for the states, at one
\* instant.
ConcRead ==
    /\ \E key \in Keys :
          observed' = {[state |-> state, fmt |-> files[path(key, state)].fmt] :
                         state \in {s \in States : has(files, key, s)}}
    /\ UNCHANGED <<cacheVars, pipeVars, stageVars, mainVars, tasks, wpc, wjob, wtodo>>

ConcNext ==
    \/ \E w \in Writers : ConcStart(w)
    \/ \E w \in Writers : ConcGlob(w)
    \/ \E w \in Writers : ConcUnlink(w)
    \/ \E w \in Writers : ConcWrite(w)
    \/ \E w \in Writers : ConcFlush(w)
    \/ ConcRead

\* The cache the worker tasks share is the face cache, an NdarrayCache.
InitConc == Init /\ kind = "ndarray"

SpecConc == InitConc /\ [][ConcNext]_vars

\* --------------------------------------- Cache.cache with a failing write

\* Cache.cache(data, key, state) whose _write_data raises (a full disk, an
\* image the encoder rejects): the validation has passed and the loop over
\* path_all has unlinked; of the new file there is nothing, or what
\* _write_data had opened.
cache_write_fails(data, key, state) ==
    /\ ~cache_raises(key, state)
    /\ files' \in {Unlink(files, path_all(files, key)),
                   WriteFile(Unlink(files, path_all(files, key)),
                             path(key, state), PartialFile)}
    /\ last' = [op |-> "cache_failed", key |-> key, state |-> state, data |-> data,
                raised |-> TRUE, found |-> FALSE, val |-> 0,
                unlinked |-> path_all(files, key)]
    /\ UNCHANGED kind

StoreFails ==
    /\ \E data \in Data, key \in Keys, state \in States :
          cache_write_fails(data, key, state)
    /\ UNCHANGED <<concVars, pipeVars, stageVars, mainVars, tasks>>

NextFails == Store \/ StoreFails

SpecFails == Init /\ [][NextFails]_vars

\* ---------------------------------------------------------------- Pipeline

\* What a stage may do to the record set it is handed.
Tampers == {"none", "inner", "outer"}

\* The number of stages registered so far; a stage is named by its rank of
\* registration.
Registered == Len(preprocessing) + Len(processing) + Len(postprocessing)

\* A register that puts the stage at the head of its list.
register_at_head(stage, stageKind) ==
    /\ preprocessing' = IF stageKind = "pre" THEN <<stage>> \o preprocessing
                        ELSE preprocessing
    /\ processing' = IF stageKind = "proc" THEN <<stage>> \o processing
                     ELSE processing
    /\ postprocessing' = IF stageKind = "post" THEN <<stage>> \o postprocessing
                         ELSE postprocessing

\* Pipeline.register(stage): appended to the list of its kind; a Stage that
\* is of none of the three kinds is dropped.
register(stage, stageKind) ==
    /\ preprocessing' = IF stageKind = "pre" THEN Append(preprocessing, stage)
                        ELSE preprocessing
    /\ processing' = IF stageKind = "proc" THEN Append(processing, stage)
                     ELSE processing
    /\ postprocessing' = IF stageKind = "post" THEN Append(postprocessing, stage)
                         ELSE postprocessing

Register ==
    /\ ppc = "idle"
    /\ Registered < MaxStages
    /\ \E stageKind \in {"pre", "proc", "post", "other"} :
          register(Registered + 1, stageKind)
    /\ UNCHANGED <<cacheVars, concVars, stageVars, mainVars, tasks, frames_dir, input_dir, ppc, pidx, outcome, runs, imgs,
                   trace, call>>

\* The place of a path in natsorted order.
NatRank(file) == CASE file = "img1" -> 1 [] file = "img2" -> 2 [] OTHER -> 3

\* A scan that takes every file of the directory for an image.
IsImage_any(file) == TRUE

\* Image.open(img_path) succeeds.
IsImage(file) == file # "notes"

\* mergedeep.merge of two ImageInfo dicts: the source's fields replace.
MergeInfo(dst, src) ==
    [f \in (DOMAIN dst) \cup (DOMAIN src) |-> IF f \in DOMAIN src THEN src[f] ELSE dst[f]]

\* A merge that takes the stage's result for the new record set.
merge_replaces(dst, src) == src

\* mergedeep.merge(imgs, result): record by record.
merge(dst, src) ==
    [p \in (DOMAIN dst) \cup (DOMAIN src) |->
        IF p \in DOMAIN src
        THEN IF p \in DOMAIN dst THEN MergeInfo(dst[p], src[p]) ELSE src[p]
        ELSE dst[p]]

\* A stage handed copy.copy(imgs): a new dict of the same ImageInfo objects.
shallow_copy(recs) == [val |-> recs, sharedOuter |-> FALSE, sharedInner |-> TRUE]

\* copy.deepcopy(imgs): a new dict of new ImageInfo objects.
deepcopy(recs) == [val |-> recs, sharedOuter |-> FALSE, sharedInner |-> FALSE]

\* The record set a stage holds after it has tampered with it: "inner" sets
\* a field in every ImageInfo, "outer" clears the dict.
Tampered(recs, tamper) ==
    IF tamper = "inner"
    THEN [p \in DOMAIN recs |-> MergeInfo(recs[p], [f \in {"tamper"} |-> 1])]
    ELSE IF tamper = "outer" THEN <<>> ELSE recs

\* The record set of the caller after the stage has tampered with `arg`:
\* changed where the stage's argument shares objects with it.
AfterCall(recs, arg, tamper) ==
    IF \/ (tamper = "inner" /\ arg.sharedInner)
       \/ (tamper = "outer" /\ arg.sharedOuter)
    THEN Tampered(recs, tamper)
    ELSE recs

\* The same field set in every record.
WithField(recs, field, value) ==
    [p \in DOMAIN recs |-> MergeInfo(recs[p], [f \in {field} |-> value])]

\* What a preprocessing stage returns: nothing, a new field for every image
\* it was handed, or the argument it was handed.
PreReturns(stage, held) ==
    {<<>>, held}
      \cup {[p \in DOMAIN held |-> [f \in {field} |-> stage]] : field \in {"hash", "eyes"}}

\* What a processing stage returns: the records with "processed_path" set to
\* its own output, built on what it holds or on what it was handed.
ProcReturns(stage, handed, held) ==
    {WithField(held, "processed_path", stage), WithField(handed, "processed_path", stage)}

StageRaises ==
    /\ ppc' = "idle"
    /\ outcome' = "failed"
    /\ UNCHANGED <<imgs, pidx>>

\* A run() that guards against a second call: it returns at once, having
\* called no stage.
run_once ==
    /\ ppc = "idle"
    /\ runs < MaxRuns
    /\ runs' = runs + 1
    /\ trace' = <<>>
    /\ call' = [stage |-> 0, kind |-> "none", tamper |-> "none", returned |-> <<>>]
    /\ IF runs > 0
       THEN /\ outcome' = "completed"
            /\ UNCHANGED <<ppc, pidx, imgs>>
       ELSE IF input_dir = {} \/ \E file \in input_dir : file = "notes"
            THEN /\ outcome' = "failed"
                 /\ UNCHANGED <<ppc, pidx, imgs>>
            ELSE /\ outcome' = "running"
                 /\ ppc' = "preprocess"
                 /\ pidx' = 1
                 /\ imgs' = [p \in input_dir |-> <<>>]
    /\ UNCHANGED <<cacheVars, concVars, stageVars, mainVars, tasks, frames_dir, input_dir, stageLists>>

\* Pipeline.run / Pipeline.preprocess up to the first stage: the scan of the
\* input directory.
run ==
    /\ ppc = "idle"
    /\ runs < MaxRuns
    /\ runs' = runs + 1
    /\ trace' = <<>>
    /\ call' = NoStageCall
    /\ IF input_dir = {} \/ \E file \in input_dir : ~IsImage(file)
       THEN /\ outcome' = "failed"
            /\ UNCHANGED <<ppc, pidx, imgs>>
       ELSE /\ outcome' = "running"
            /\ ppc' = "preprocess"
            /\ pidx' = 1
            /\ imgs' = [p \in input_dir |-> <<>>]
    /\ UNCHANGED <<cacheVars, concVars, stageVars, mainVars, tasks, frames_dir, input_dir, stageLists>>

\* One turn of the loop of Pipeline.preprocess:
\* merge(imgs, stage.preprocess(copy.deepcopy(imgs)))
preprocess_stage ==
    /\ ppc = "preprocess"
    /\ pidx <= Len(preprocessing)
    /\ trace' = Append(trace, preprocessing[pidx])
    /\ \/ /\ StageRaises
          /\ call' = [NoStageCall EXCEPT !.stage = preprocessing[pidx], !.kind = "raised"]
       \/ \E tamper \in Tampers :
            LET arg == deepcopy(imgs)
                held == Tampered(arg.val, tamper)
            IN  \E returned \in PreReturns(preprocessing[pidx], held) :
                  /\ imgs' = merge(AfterCall(imgs, arg, tamper), returned)
                  /\ call' = [stage |-> preprocessing[pidx], kind |-> "pre",
                              tamper |-> tamper, returned |-> returned]
                  /\ pidx' = pidx + 1
                  /\ UNCHANGED <<ppc, outcome>>
    /\ UNCHANGED <<cacheVars, concVars, stageVars, mainVars, tasks, frames_dir, input_dir, stageLists, runs>>

\* A cleardir that leaves the directory as it is.
cleardir_keeps(dir) == dir

\* Files.cleardir(path): the directory is removed and created again.
cleardir(dir) == <<>>

\* The record natsorted puts at index idx (from 0).
natsorted_at(recs, idx) ==
    CHOOSE p \in DOMAIN recs :
        Cardinality({q \in DOMAIN recs : NatRank(q) < NatRank(p)}) = idx

\* The loop at the end of Pipeline.process: os.link of the record at index
\* idx to {frames_dir}/{idx}.jpg.
link_frames(dir, recs) ==
    LET n == Cardinality(DOMAIN recs)
    IN  [idx \in (DOMAIN dir) \cup (0 .. (n - 1)) |->
            IF idx < n THEN natsorted_at(recs, idx) ELSE dir[idx]]

\* Pipeline.preprocess returns; Pipeline.process starts: its deep copy, with
\* "processed_path" of every record set to the input path (0: no stage's output).
process_start ==
    /\ ppc = "preprocess"
    /\ pidx > Len(preprocessing)
    /\ ppc' = "process"
    /\ pidx' = 1
    /\ imgs' = WithField(deepcopy(imgs).val, "processed_path", 0)
    /\ frames_dir' = cleardir(frames_dir)
    /\ UNCHANGED <<cacheVars, concVars, stageVars, mainVars, tasks, input_dir, stageLists, outcome, runs, trace, call>>

\* One turn of the loop of Pipeline.process:
\* processed_imgs = stage.process(copy.deepcopy(processed_imgs))
process_stage ==
    /\ ppc = "process"
    /\ pidx <= Len(processing)
    /\ trace' = Append(trace, processing[pidx])
    /\ \/ /\ StageRaises
          /\ call' = [NoStageCall EXCEPT !.stage = processing[pidx], !.kind = "raised"]
       \/ \E tamper \in Tampers :
            LET arg == deepcopy(imgs)
                held == Tampered(arg.val, tamper)
            IN  \E returned \in ProcReturns(processing[pidx], arg.val, held) :
                  /\ imgs' = returned
                  /\ call' = [stage |-> processing[pidx], kind |-> "proc",
                              tamper |-> tamper, returned |-> returned]
                  /\ pidx' = pidx + 1
                  /\ UNCHANGED <<ppc, outcome>>
    /\ UNCHANGED <<cacheVars, concVars, stageVars, mainVars, tasks, frames_dir, input_dir, stageLists, runs>>

\* The frames are linked ("frame_path" set) and Pipeline.process returns;
\* Pipeline.postprocess starts.
postprocess_start ==
    /\ ppc = "process"
    /\ pidx > Len(processing)
    /\ ppc' = "postprocess"
    /\ pidx' = 1
    /\ imgs' = [p \in DOMAIN imgs |->
                  MergeInfo(imgs[p], [f \in {"frame_path"} |->
                                        Cardinality({q \in DOMAIN imgs : NatRank(q) < NatRank(p)})])]
    /\ frames_dir' = link_frames(frames_dir, imgs)
    /\ UNCHANGED <<cacheVars, concVars, stageVars, mainVars, tasks, input_dir, stageLists, outcome, runs, trace, call>>

\* One turn of the loop of Pipeline.postprocess:
\* stage.postprocess(copy.deepcopy(imgs), frames_dir)
postprocess_stage ==
    /\ ppc = "postprocess"
    /\ pidx <= Len(postprocessing)
    /\ trace' = Append(trace, postprocessing[pidx])
    /\ \/ /\ StageRaises
          /\ call' = [NoStageCall EXCEPT !.stage = postprocessing[pidx], !.kind = "raised"]
       \/ \E tamper \in Tampers :
            LET arg == deepcopy(imgs)
            IN  /\ imgs' = AfterCall(imgs, arg, tamper)
                /\ call' = [stage |-> postprocessing[pidx], kind |-> "post",
                            tamper |-> tamper, returned |-> <<>>]
                /\ pidx' = pidx + 1
                /\ UNCHANGED <<ppc, outcome>>
    /\ UNCHANGED <<cacheVars, concVars, stageVars, mainVars, tasks, frames_dir, input_dir, stageLists, runs>>

\* Pipeline.postprocess and Pipeline.run return.
run_returns ==
    /\ ppc = "postprocess"
    /\ pidx > Len(postprocessing)
    /\ ppc' = "idle"
    /\ outcome' = "completed"
    /\ UNCHANGED <<cacheVars, concVars, stageVars, mainVars, tasks, frames_dir, input_dir, stageLists, pidx, runs, imgs, trace, call>>

PipelineNext ==
    \/ Register
    \/ run
    \/ preprocess_stage
    \/ process_start
    \/ process_stage
    \/ postprocess_start
    \/ postprocess_stage
    \/ run_returns

\* A pipeline on one of the input directories.
InitPipeline ==
    /\ CacheInit /\ kind = "ndarray"
    /\ ConcInit
    /\ PipelineInit
    /\ input_dir \in InputDirs
    /\ StagesInit /\ photos = {} /\ overrides = <<>>
    /\ NoProgram

SpecPipeline == InitPipeline /\ [][PipelineNext]_vars

\* ------------------------------------------- NormalizeStage: the geometry
\* Points and sizes are pairs <<x, y>>, the eyes of an image are the pair
\* <<left eye, right eye>>, a batch is a function from paths to records.
\* The floating-point values of the code are exact rationals here: a scale
\* is num/den, an angle is the direction <<x, y>> it turns the x axis to.

\* ndarray.astype(int) of a / b (b > 0): rounds towards zero.
astype_int(a, b) == IF a >= 0 THEN a \div b ELSE -((-a) \div b)

Abs(a) == IF a >= 0 THEN a ELSE -a

RECURSIVE gcd(_, _)
gcd(a, b) == IF b = 0 THEN a ELSE gcd(b, a % b)

\* The largest and the smallest of a set of numbers (np.max, np.min).
np_max(S) == CHOOSE x \in S : \A y \in S : y <= x

np_min(S) == CHOOSE x \in S : \A y \in S : x <= y

\* The square root of a square number.
sqrt(n) == CHOOSE r \in 0..n : r * r <= n /\ (r + 1) * (r + 1) > n

\* math.dist(eyes[0], eyes[1])
eye_dists(eyes) ==
    [it \in DOMAIN eyes |->
        sqrt((eyes[it][2][1] - eyes[it][1][1]) * (eyes[it][2][1] - eyes[it][1][1])
             + (eyes[it][2][2] - eyes[it][1][2]) * (eyes[it][2][2] - eyes[it][1][2]))]

\* A batch scaled to its largest eye distance.
max_eye_dist(eyes) ==
    LET dists == eye_dists(eyes) IN np_max({dists[it] : it \in DOMAIN eyes})

\* np.min(np.array(list(eye_dists.values())))
min_eye_dist(eyes) ==
    LET dists == eye_dists(eyes) IN np_min({dists[it] : it \in DOMAIN eyes})

\* min_eye_dist / eye_dists[it], in lowest terms
scales(eyes) ==
    LET dists == eye_dists(eyes)
        smallest == min_eye_dist(eyes)
    IN  [it \in DOMAIN eyes |->
            LET g == gcd(smallest, dists[it])
            IN  [num |-> smallest \div g, den |-> dists[it] \div g]]

\* (scale * point).astype(int)
scaled(scale, point) ==
    <<astype_int(scale.num * point[1], scale.den), astype_int(scale.num * point[2], scale.den)>>

\* (scales[it] * imgs[it]["dims"]).astype(int)
scaled_img_dims(eyes, dims) ==
    LET scale == scales(eyes)
    IN  [it \in DOMAIN eyes |-> scaled(scale[it], dims[it])]

\* np.mean([eyes[it][0], eyes[it][1]], axis=0).astype(int)
eye_centers(eyes) ==
    [it \in DOMAIN eyes |->
        <<astype_int(eyes[it][1][1] + eyes[it][2][1], 2),
          astype_int(eyes[it][1][2] + eyes[it][2][2], 2)>>]

\* (scales[it] * eye_centers[it]).astype(int)
scaled_eye_centers(eyes) ==
    LET scale == scales(eyes)
        centers == eye_centers(eyes)
    IN  [it \in DOMAIN eyes |-> scaled(scale[it], centers[it])]

\* The smallest scaled eye center as the point the eyes are moved to.
min_scaled_eye_center(eyes) ==
    LET centers == scaled_eye_centers(eyes)
    IN  <<np_min({centers[it][1] : it \in DOMAIN eyes}),
          np_min({centers[it][2] : it \in DOMAIN eyes})>>

\* np.max(np.array(list(scaled_eye_centers.values())), axis=0)
max_scaled_eye_center(eyes) ==
    LET centers == scaled_eye_centers(eyes)
    IN  <<np_max({centers[it][1] : it \in DOMAIN eyes}),
          np_max({centers[it][2] : it \in DOMAIN eyes})>>

\* max_scaled_eye_center - scaled_eye_centers[it]
translations(eyes) ==
    LET target == max_scaled_eye_center(eyes)
        centers == scaled_eye_centers(eyes)
    IN  [it \in DOMAIN eyes |->
            <<target[1] - centers[it][1], target[2] - centers[it][2]>>]

\* scales[it] * eyes[it][1] - scaled_eye_centers[it], times the denominator
\* of the scale (which leaves its direction as it is)
scaled_relative_right_eye_positions(eyes) ==
    LET allScales == scales(eyes)
        centers == scaled_eye_centers(eyes)
    IN  [it \in DOMAIN eyes |->
            LET scale == allScales[it]
            IN  <<scale.num * eyes[it][2][1] - scale.den * centers[it][1],
                  scale.num * eyes[it][2][2] - scale.den * centers[it][2]>>]

\* -math.atan2(v[1], v[0]): the direction <<v[0], -v[1]>>, in lowest terms
angles(eyes) ==
    LET positions == scaled_relative_right_eye_positions(eyes)
    IN  [it \in DOMAIN eyes |->
            LET v == positions[it]
                g == gcd(Abs(v[1]), Abs(v[2]))
            IN  IF g = 0 THEN <<1, 0>> ELSE <<v[1] \div g, (-v[2]) \div g>>]

\* math.fabs(math.degrees(angle)) >= 45.0
angle_abs_ge_45(angle) == angle[1] <= Abs(angle[2])

\* get_corners(dims)
get_corners(dims) == << <<dims[1], 0>>, <<0, 0>>, <<0, dims[2]>>, dims >>

\* rotate(origin, points, angle): cos = x / r and sin = y / r of the
\* direction <<x, y>>, r its length; the sum is rounded towards zero.
rotate(origin, points, angle) ==
    LET r == sqrt(angle[1] * angle[1] + angle[2] * angle[2])
    IN  [i \in DOMAIN points |->
            LET diff == <<points[i][1] - origin[1], points[i][2] - origin[2]>>
            IN  <<astype_int(origin[1] * r + angle[1] * diff[1] - angle[2] * diff[2], r),
                  astype_int(origin[2] * r + angle[2] * diff[1] + angle[1] * diff[2], r)>>]

\* np.sort(values)[k - 1]: the k-th smallest of a sequence of numbers
np_sort_at(values, k) ==
    CHOOSE v \in {values[i] : i \in DOMAIN values} :
        /\ Cardinality({i \in DOMAIN values : values[i] < v}) < k
        /\ Cardinality({i \in DOMAIN values : values[i] <= v}) >= k

\* largest_inner_rectangle(corners): <<left, top, right, bottom>>
largest_inner_rectangle(corners) ==
    LET xs == [i \in DOMAIN corners |-> corners[i][1]]
        ys == [i \in DOMAIN corners |-> corners[i][2]]
    IN  <<np_sort_at(xs, 2), np_sort_at(ys, 2), np_sort_at(xs, 3), np_sort_at(ys, 3)>>

\* rectangle_overlap(rectangles), of a set of rectangles
rectangle_overlap(rectangles) ==
    <<np_max({rect[1] : rect \in rectangles}), np_max({rect[2] : rect \in rectangles}),
      np_min({rect[3] : rect \in rectangles}), np_min({rect[4] : rect \in rectangles})>>

\* translations[it] + get_corners(scaled_img_dims[it]), rotated
img_corners_after_rotation(eyes, dims) ==
    LET target == max_scaled_eye_center(eyes)
        translation == translations(eyes)
        scaledDims == scaled_img_dims(eyes, dims)
        angle == angles(eyes)
    IN  [it \in DOMAIN eyes |->
            LET corners == get_corners(scaledDims[it])
            IN  rotate(target,
                       [i \in 1..4 |->
                           <<translation[it][1] + corners[i][1],
                             translation[it][2] + corners[i][2]>>],
                       angle[it])]

img_inner_boundaries(eyes, dims) ==
    LET corners == img_corners_after_rotation(eyes, dims)
    IN  [it \in DOMAIN eyes |-> largest_inner_rectangle(corners[it])]

\* The overlap as it is, not floored.
not_floored(box) == box

\* (np.floor(min_inner_boundaries / 2) * 2).astype(int)
floor_even(box) == [i \in DOMAIN box |-> (box[i] \div 2) * 2]

min_inner_boundaries(eyes, dims) ==
    LET boundaries == img_inner_boundaries(eyes, dims)
    IN  floor_even(rectangle_overlap({boundaries[it] : it \in DOMAIN eyes}))

\* --------------------------------- FindFacesStage and NormalizeStage
\* One invocation of the program on a batch: FindFacesStage.preprocess (its
\* find_face tasks, in any order), then NormalizeStage.process (the solution
\* for the batch, then its loop over the images).

\* ReadMetadataStage.preprocess: imgs[it]["hash"] and imgs[it]["dims"]
img_hash(it) == Photo[it].hash

dims_of(batch) == [it \in batch |-> Photo[it].dims]

\* The function without the argument `key`.
Without(fn, key) == [k \in (DOMAIN fn) \ {key} |-> fn[k]]

\* Cache.cache(data, key, state) on a cache that holds hash -> entry: the
\* entry of the key is replaced.
cache_store(entries, key, entry) == (key :> entry) @@ Without(entries, key)

\* FindFacesStage.__init__ (face_selection_overrides as the configuration
\* has them now, Files.cleardir(error_dir)) and the start of
\* FindFacesStage.preprocess.
invoke ==
    /\ spc = "idle"
    /\ invocations < MaxRuns
    /\ invocations' = invocations + 1
    /\ overrides' \in {config \in OverrideConfigs : DOMAIN config \subseteq photos}
    /\ error_dir' = {}
    /\ spc' = "faces"
    /\ todo' = photos
    /\ before' = [result |-> result, img_eyes |-> img_eyes, predictor |-> predictor,
                  face_cache |-> face_cache, normalized_cache |-> normalized_cache]
    /\ img_eyes' = <<>>
    /\ solved' = NoSolution
    /\ result' = "running"
    /\ raised' = <<>>
    /\ detected' = {}
    /\ applied' = <<>>
    /\ UNCHANGED <<cacheVars, concVars, pipeVars, mainVars, tasks, photos, predictor,
                   face_cache, normalized_cache>>

\* find_face that writes the annotated image for no input.
writes_debug_image_never(faces, img_name) == FALSE

\* find_face writes the annotated image to error_dir: for more than one
\* face and no override.
writes_debug_image(faces, img_name) ==
    Len(faces) > 1 /\ img_name \notin DOMAIN overrides

\* The UserException find_face raises for these detections, or "none".
find_face_raises(faces, img_name) ==
    IF Len(faces) = 0 THEN "not_enough"
    ELSE IF Len(faces) > 1 /\ img_name \notin DOMAIN overrides THEN "too_many"
    ELSE "none"

\* sorted(list(faces), key=override)[0], or faces[0] of a single face
selected_face(faces, img_name) ==
    IF Len(faces) = 1 THEN faces[1] ELSE faces[overrides[img_name]]

\* A face cache that never has the eyes of an image.
face_cache_has_never(it) == FALSE

\* face_cache.has(img_data["hash"], "")
face_cache_has(it) == img_hash(it) \in DOMAIN face_cache

\* find_face(img): one task of the process_map.
find_face(it) ==
    /\ spc = "faces"
    /\ it \in todo
    /\ todo' = todo \ {it}
    /\ IF face_cache_has(it)
       THEN /\ img_eyes' = (it :> face_cache[img_hash(it)]) @@ img_eyes
            /\ UNCHANGED <<face_cache, error_dir, raised, detected>>
       ELSE LET faces == Photo[it].faces[predictor]
            IN  /\ detected' = detected \cup {it}
                /\ error_dir' = IF writes_debug_image(faces, it)
                                THEN error_dir \cup {it} ELSE error_dir
                /\ IF find_face_raises(faces, it) # "none"
                   THEN /\ raised' = (it :> find_face_raises(faces, it)) @@ raised
                        /\ UNCHANGED <<face_cache, img_eyes>>
                   ELSE /\ face_cache' = cache_store(face_cache, img_hash(it),
                                                     selected_face(faces, it))
                        /\ img_eyes' = (it :> selected_face(faces, it)) @@ img_eyes
                        /\ UNCHANGED raised
    /\ UNCHANGED <<cacheVars, concVars, pipeVars, mainVars, tasks, photos, overrides, predictor,
                   normalized_cache, spc, solved, result, invocations, applied,
                   before>>

\* process_map re-raises the UserException of a task; the tasks not yet
\* started are dropped.
faces_raise ==
    /\ spc = "faces"
    /\ raised # <<>>
    /\ spc' = "idle"
    /\ result' = "user_error"
    /\ UNCHANGED <<cacheVars, concVars, pipeVars, mainVars, tasks, photos, overrides, predictor,
                   face_cache, normalized_cache, error_dir, todo, img_eyes, solved,
                   raised, invocations, detected, applied, before>>

\* FindFacesStage.preprocess returns the eyes of every image.
faces_return ==
    /\ spc = "faces"
    /\ todo = {}
    /\ raised = <<>>
    /\ spc' = "solve"
    /\ UNCHANGED <<cacheVars, concVars, pipeVars, mainVars, tasks, photos, overrides, predictor,
                   face_cache, normalized_cache, error_dir, todo, img_eyes, solved,
                   result, raised, invocations, detected, applied, before>>

\* NormalizeStage.process, lines 43-70: the scales, translations and angles
\* of the images and the crop box of the batch.
solve(eyes, dims) ==
    [made |-> TRUE,
     scales |-> scales(eyes),
     scaled_img_dims |-> scaled_img_dims(eyes, dims),
     scaled_eye_centers |-> scaled_eye_centers(eyes),
     max_scaled_eye_center |-> max_scaled_eye_center(eyes),
     translations |-> translations(eyes),
     angles |-> angles(eyes),
     img_inner_boundaries |-> img_inner_boundaries(eyes, dims),
     min_inner_boundaries |-> min_inner_boundaries(eyes, dims)]

normalize_solve ==
    /\ spc = "solve"
    /\ solved' = solve(img_eyes, dims_of(photos))
    /\ spc' = "normalize"
    /\ todo' = photos
    /\ UNCHANGED <<cacheVars, concVars, pipeVars, mainVars, tasks, photos, overrides, predictor,
                   face_cache, normalized_cache, error_dir, img_eyes, result, raised,
                   invocations, detected, applied, before>>

\* A state of the normalized cache that leaves the crop box out.
state_hash_without_box(it) ==
    <<img_eyes[it], solved.scales[it], solved.translations[it], solved.angles[it]>>

\* Hasher.hash_string(f"{eyes_string}-{params_string}"): one state for every
\* value of the eyes of the image, its scale, translation and angle and the
\* crop box of the batch.
state_hash(it) ==
    <<img_eyes[it], solved.scales[it], solved.translations[it], solved.angles[it],
      solved.min_inner_boundaries>>

\* A lookup that finds no entry.
normalized_has_never(it) == FALSE

\* self.normalized_cache.has(img_data["hash"], state_hash)
normalized_has(it) ==
    /\ img_hash(it) \in DOMAIN normalized_cache
    /\ normalized_cache[img_hash(it)].state = state_hash(it)

\* A box img.crop makes no image of.
is_empty(box) == box[3] <= box[1] \/ box[4] <= box[2]

\* One turn of the loop of NormalizeStage.process, lines 75-113.
normalize_image(it) ==
    /\ spc = "normalize"
    /\ it \in todo
    /\ IF normalized_has(it)
       THEN /\ todo' = todo \ {it}
            /\ UNCHANGED <<normalized_cache, spc, result, raised, applied>>
       ELSE IF angle_abs_ge_45(solved.angles[it])
       THEN /\ raised' = (it :> "rotation") @@ raised
            /\ spc' = "idle"
            /\ result' = "user_error"
            /\ UNCHANGED <<normalized_cache, todo, applied>>
       ELSE /\ applied' = (it :> solved.min_inner_boundaries) @@ applied
            /\ IF is_empty(solved.min_inner_boundaries)
               THEN \* the crop or the write of the image raises (no
                    \* UserException); the entry of the key may have been
                    \* unlinked already
                    /\ normalized_cache' \in {normalized_cache,
                                              Without(normalized_cache, img_hash(it))}
                    /\ spc' = "idle"
                    /\ result' = "error"
                    /\ UNCHANGED <<todo, raised>>
               ELSE /\ normalized_cache' =
                          cache_store(normalized_cache, img_hash(it),
                                      [state |-> state_hash(it),
                                       box |-> solved.min_inner_boundaries])
                    /\ todo' = todo \ {it}
                    /\ UNCHANGED <<spc, result, raised>>
    /\ UNCHANGED <<cacheVars, concVars, pipeVars, mainVars, tasks, photos, overrides, predictor,
                   face_cache, error_dir, img_eyes, solved, invocations, detected,
                   before>>

\* NormalizeStage.process returns; the invocation completes.
normalize_return ==
    /\ spc = "normalize"
    /\ todo = {}
    /\ spc' = "idle"
    /\ result' = "completed"
    /\ UNCHANGED <<cacheVars, concVars, pipeVars, mainVars, tasks, photos, overrides, predictor,
                   face_cache, normalized_cache, error_dir, todo, img_eyes, solved,
                   raised, invocations, detected, applied, before>>

\* Between two invocations the landmark model file is replaced and the face
\* of one image is no longer cached: the next invocation detects it again.
redetect(it) ==
    /\ spc = "idle"
    /\ invocations >= 1
    /\ predictor = "v1"
    /\ it \in photos
    /\ img_hash(it) \in DOMAIN face_cache
    /\ predictor' = "v2"
    /\ face_cache' = Without(face_cache, img_hash(it))
    /\ UNCHANGED <<cacheVars, concVars, pipeVars, mainVars, tasks, photos, overrides,
                   normalized_cache, error_dir, spc, todo, img_eyes, solved, result,
                   raised, invocations, detected, applied, before>>

StagesNext ==
    \/ invoke
    \/ \E it \in photos : find_face(it)
    \/ faces_raise
    \/ faces_return
    \/ normalize_solve
    \/ \E it \in photos : normalize_image(it)
    \/ normalize_return
    \/ \E it \in photos : redetect(it)

\* An invocation on one of the batches with one of the configurations.
InitStages ==
    /\ CacheInit /\ kind = "ndarray"
    /\ ConcInit
    /\ PipelineInit /\ input_dir = {}
    /\ StagesInit
    /\ photos \in Batches
    /\ overrides \in {config \in OverrideConfigs : DOMAIN config \subseteq photos}
    /\ NoProgram

SpecStages == InitStages /\ [][StagesNext]_vars

\* ------------------------------------ FindFacesStage: the tasks of the pool
\* Files of the input directory that are copies of another file: the same
\* bytes, so the same hash and the same detections, under another name.
Copies == ("a-copy.jpg" :> "a.jpg") @@ ("f-copy.jpg" :> "f.jpg")

PoolFiles == {"a.jpg", "a-copy.jpg", "b.jpg", "e.jpg", "f.jpg", "f-copy.jpg"}

PoolBatches == {batch \in SUBSET PoolFiles : Cardinality(batch) \in 1..MaxBatch}

PoolOverrideConfigs ==
    {<<>>, "f.jpg" :> 1, ("f.jpg" :> 1) @@ ("f-copy.jpg" :> 1),
     ("f.jpg" :> 1) @@ ("f-copy.jpg" :> 2)}

\* The photo whose bytes the file holds.
content_of(it) == IF it \in DOMAIN Copies THEN Copies[it] ELSE it

\* img_data["hash"] of a task.
task_hash(it) == img_hash(content_of(it))

\* The faces the detector finds in the file.
task_faces(it) == Photo[content_of(it)].faces[predictor]

\* An entry of the face cache whose file is open for writing: it exists and
\* has no content yet.
Unwritten == <<>>

Queued == [pc |-> "queued", eyes |-> <<>>]

\* FindFacesStage.__init__ and preprocess: error_dir is cleared and
\* process_map hands one find_face task per image to the pool.
process_map ==
    /\ spc = "idle"
    /\ invocations < MaxRuns
    /\ invocations' = invocations + 1
    /\ error_dir' = {}
    /\ spc' = "faces"
    /\ tasks' = [it \in photos |-> Queued]
    /\ before' = [result |-> result, img_eyes |-> img_eyes, predictor |-> predictor,
                  face_cache |-> face_cache, normalized_cache |-> normalized_cache]
    /\ img_eyes' = <<>>
    /\ result' = "running"
    /\ raised' = <<>>
    /\ UNCHANGED <<cacheVars, concVars, pipeVars, mainVars, photos, overrides,
                   predictor, face_cache, normalized_cache, todo, solved, detected,
                   applied>>

\* find_face, lines 94-96: has and load of the face cache. The load of a
\* file another task is still writing raises.
find_face_has(it) ==
    /\ spc = "faces"
    /\ tasks[it].pc = "queued"
    /\ tasks' = [tasks EXCEPT ![it] =
                   IF task_hash(it) \notin DOMAIN face_cache
                   THEN [pc |-> "detect", eyes |-> <<>>]
                   ELSE IF face_cache[task_hash(it)] = Unwritten
                   THEN [pc |-> "crashed", eyes |-> <<>>]
                   ELSE [pc |-> "done", eyes |-> face_cache[task_hash(it)]]]
    /\ UNCHANGED <<cacheVars, concVars, pipeVars, mainVars, photos, overrides,
                   predictor, face_cache, normalized_cache, error_dir, spc, todo,
                   img_eyes, solved, result, raised, invocations, detected, applied,
                   before>>

\* find_face, lines 98-138: the detector runs; no face or too many faces
\* raise, else the eyes of the selected face are computed.
find_face_detect(it) ==
    /\ spc = "faces"
    /\ tasks[it].pc = "detect"
    /\ error_dir' = IF writes_debug_image(task_faces(it), it)
                    THEN error_dir \cup {it} ELSE error_dir
    /\ IF find_face_raises(task_faces(it), it) # "none"
       THEN /\ tasks' = [tasks EXCEPT ![it] = [pc |-> "raised", eyes |-> <<>>]]
            /\ raised' = (it :> find_face_raises(task_faces(it), it)) @@ raised
       ELSE /\ tasks' = [tasks EXCEPT ![it] =
                           [pc |-> "cache", eyes |-> selected_face(task_faces(it), it)]]
            /\ UNCHANGED raised
    /\ UNCHANGED <<cacheVars, concVars, pipeVars, mainVars, photos, overrides,
                   predictor, face_cache, normalized_cache, spc, todo, img_eyes,
                   solved, result, invocations, detected, applied, before>>

\* find_face, line 139: face_cache.cache is entered; the entries of the key
\* are unlinked and the new file is opened.
find_face_cache(it) ==
    /\ spc = "faces"
    /\ tasks[it].pc = "cache"
    /\ tasks' = [tasks EXCEPT ![it].pc = "write"]
    /\ face_cache' = cache_store(face_cache, task_hash(it), Unwritten)
    /\ UNCHANGED <<cacheVars, concVars, pipeVars, mainVars, photos, overrides,
                   predictor, normalized_cache, error_dir, spc, todo, img_eyes,
                   solved, result, raised, invocations, detected, applied, before>>

\* face_cache.cache has written the file and returns; find_face returns.
find_face_written(it) ==
    /\ spc = "faces"
    /\ tasks[it].pc = "write"
    /\ tasks' = [tasks EXCEPT ![it].pc = "done"]
    /\ face_cache' = cache_store(face_cache, task_hash(it), tasks[it].eyes)
    /\ UNCHANGED <<cacheVars, concVars, pipeVars, mainVars, photos, overrides,
                   predictor, normalized_cache, error_dir, spc, todo, img_eyes,
                   solved, result, raised, invocations, detected, applied, before>>

\* Every task has returned: preprocess returns dict(process_map(...)), each
\* path with the eyes its task returned.
process_map_returns ==
    /\ spc = "faces"
    /\ \A it \in photos : tasks[it].pc = "done"
    /\ img_eyes' = [it \in photos |-> tasks[it].eyes]
    /\ result' = "completed"
    /\ spc' = "idle"
    /\ UNCHANGED <<cacheVars, concVars, pipeVars, mainVars, tasks, photos,
                   overrides, predictor, face_cache, normalized_cache, error_dir,
                   todo, solved, raised, invocations, detected, applied, before>>

\* A task has raised and the pool has finished: process_map raises the
\* exception of a task.
process_map_raises ==
    /\ spc = "faces"
    /\ \A it \in photos : tasks[it].pc \in {"done", "raised", "crashed"}
    /\ \E it \in photos :
          /\ tasks[it].pc \in {"raised", "crashed"}
          /\ result' = IF tasks[it].pc = "raised" THEN "user_error" ELSE "error"
    /\ spc' = "idle"
    /\ UNCHANGED <<cacheVars, concVars, pipeVars, mainVars, tasks, photos,
                   overrides, predictor, face_cache, normalized_cache, error_dir,
                   todo, img_eyes, solved, raised, invocations, detected, applied,
                   before>>

PoolNext ==
    \/ process_map
    \/ \E it \in photos : find_face_has(it)
    \/ \E it \in photos : find_face_detect(it)
    \/ \E it \in photos : find_face_cache(it)
    \/ \E it \in photos : find_face_written(it)
    \/ process_map_returns
    \/ process_map_raises

\* The stage on one of the batches, with an empty face cache.
InitPool ==
    /\ CacheInit /\ kind = "ndarray"
    /\ ConcInit
    /\ PipelineInit /\ input_dir = {}
    /\ StagesInit
    /\ NoProgram
    /\ photos \in PoolBatches
    /\ overrides \in {config \in PoolOverrideConfigs : DOMAIN config \subseteq photos}

SpecPool == InitPool /\ [][PoolNext]_vars

\* ------------------------------------------------------- facemation.main
\* config_default.py: the settings main reads, by section.
cfg_default == [demux |-> [enabled |-> TRUE, fps |-> 48],
                caption |-> [enabled |-> FALSE]]

\* The config dicts a config.py or config_dev.py may define; <<>> is the {}
\* of a file that does not exist.
ConfigLayers(fps) ==
    {<<>>,
     [demux |-> [fps |-> fps]],
     [demux |-> [enabled |-> FALSE]],
     [caption |-> [enabled |-> TRUE], demux |-> [fps |-> fps]]}

\* What the two globs of main find: no file, only .jpg files, or also files
\* of another extension.
InputKinds == {"none", "jpg", "mixed"}

\* load_config: merge({}, cfg_default, cfg_dev, cfg_user).
load_config ==
    merge(merge(merge(<<>>, cfg_default), cfg_dev), cfg_user)

\* The stage main calls after normalize_images.
after_normalize(config) ==
    IF config.caption.enabled THEN "add_captions" ELSE "demux_images"

\* main up to the try block: the configuration is loaded, the outputs of
\* earlier runs are removed, the requirements and inputs are validated; each
\* failed validation prints and returns.
main ==
    /\ mpc = "idle"
    /\ mains < MaxRuns
    /\ mains' = mains + 1
    /\ cfg' = load_config
    /\ output_path' = "absent"
    /\ exception' = "none"
    /\ IF cfg'.demux.enabled /\ ~ffmpeg
       THEN stderr' = "no_ffmpeg" /\ exit_status' = 0 /\ mpc' = "idle"
       ELSE IF jpgs = "none"
       THEN stderr' = "no_images" /\ exit_status' = 0 /\ mpc' = "idle"
       ELSE IF jpgs = "mixed"
       THEN stderr' = "none" /\ exit_status' = 0 /\ mpc' = "idle"
       ELSE stderr' = "none" /\ exit_status' = -1 /\ mpc' = "find_all_faces"
    /\ UNCHANGED <<cacheVars, concVars, pipeVars, stageVars, tasks, cfg_user,
                   cfg_dev, ffmpeg, jpgs>>

\* except UserException: the message is printed on stderr; main returns and
\* the interpreter exits.
except_UserException ==
    /\ exception' = "UserException"
    /\ stderr' = "Error"
    /\ exit_status' = 0
    /\ mpc' = "idle"

\* find_all_faces, normalize_images or add_captions returns.
stage_returns ==
    /\ mpc \in {"find_all_faces", "normalize_images", "add_captions"}
    /\ mpc' = CASE mpc = "find_all_faces" -> "normalize_images"
                [] mpc = "normalize_images" -> after_normalize(cfg)
                [] mpc = "add_captions" -> "demux_images"
    /\ UNCHANGED <<cacheVars, concVars, pipeVars, stageVars, tasks, cfg_user,
                   cfg_dev, ffmpeg, jpgs, cfg, output_path, stderr, exception,
                   exit_status, mains>>

\* find_all_faces or normalize_images raises a UserException.
stage_raises ==
    /\ mpc \in {"find_all_faces", "normalize_images"}
    /\ except_UserException
    /\ UNCHANGED <<cacheVars, concVars, pipeVars, stageVars, tasks, cfg_user,
                   cfg_dev, ffmpeg, jpgs, cfg, output_path, mains>>

\* A stage raises an exception that is no UserException: main does not catch
\* it, the interpreter prints the traceback and exits with status 1.
stage_crashes ==
    /\ mpc \in {"find_all_faces", "normalize_images", "add_captions"}
    /\ exception' = "Exception"
    /\ stderr' = "Traceback"
    /\ exit_status' = 1
    /\ mpc' = "idle"
    /\ UNCHANGED <<cacheVars, concVars, pipeVars, stageVars, tasks, cfg_user,
                   cfg_dev, ffmpeg, jpgs, cfg, output_path, mains>>

\* demux_images with cfg["enabled"] false: it returns at once, main prints
\* "Done!" and returns.
demux_disabled ==
    /\ mpc = "demux_images"
    /\ ~cfg.demux.enabled
    /\ exit_status' = 0
    /\ mpc' = "idle"
    /\ UNCHANGED <<cacheVars, concVars, pipeVars, stageVars, tasks, cfg_user,
                   cfg_dev, ffmpeg, jpgs, cfg, output_path, stderr, exception,
                   mains>>

\* demux_images: ffmpeg exits with status 0, the video is at output_path.
demux_succeeds ==
    /\ mpc = "demux_images"
    /\ cfg.demux.enabled
    /\ output_path' = "video"
    /\ exit_status' = 0
    /\ mpc' = "idle"
    /\ UNCHANGED <<cacheVars, concVars, pipeVars, stageVars, tasks, cfg_user,
                   cfg_dev, ffmpeg, jpgs, cfg, stderr, exception, mains>>

\* demux_images: subprocess.run raises (ffmpeg exits with another status),
\* which becomes a UserException. ffmpeg opens its output file before it
\* encodes: the file it leaves is none or an unfinished one.
demux_fails ==
    /\ mpc = "demux_images"
    /\ cfg.demux.enabled
    /\ output_path' \in {"absent", "partial"}
    /\ except_UserException
    /\ UNCHANGED <<cacheVars, concVars, pipeVars, stageVars, tasks, cfg_user,
                   cfg_dev, ffmpeg, jpgs, cfg, mains>>

MainNext ==
    \/ main
    \/ stage_returns
    \/ stage_raises
    \/ stage_crashes
    \/ demux_disabled
    \/ demux_succeeds
    \/ demux_fails

\* The program in one of the environments: the two configuration files, the
\* ffmpeg executable, the input directory.
InitMain ==
    /\ CacheInit /\ kind = "ndarray"
    /\ ConcInit
    /\ PipelineInit /\ input_dir = {}
    /\ StagesInit /\ photos = {} /\ overrides = <<>>
    /\ MainInit
    /\ tasks = <<>>
    /\ cfg_user \in ConfigLayers(24)
    /\ cfg_dev \in ConfigLayers(60)
    /\ ffmpeg \in BOOLEAN
    /\ jpgs \in InputKinds

SpecMain == InitMain /\ [][MainNext]_vars

\* ------------------------------------------------------------ Cache claims

\* The keys and states Cache.cache accepts.
ValidKeys == {key \in Keys : ~HasSeparator(key)}

ValidStates == {state \in States : ~HasSeparator(state)}

\* The files of the directory that are entries of `key`: {prefix}-{key}-{state}{suffix}.
EntriesOf(fs, key) == {name \in DOMAIN fs : \E state \in ValidStates : name = path(key, state)}

\* The states under which `key` has an entry.
StoredStates(fs, key) == {state \in ValidStates : path(key, state) \in DOMAIN fs}

StoreDone(c) == c.op = "cache" /\ ~c.raised

\* C1: after any sequence of stores every key has at most one entry, and the
\* entry a store wrote is the only entry of its key.
C1_OneEntryPerKey ==
    /\ \A key \in ValidKeys : Cardinality(EntriesOf(files, key)) <= 1
    /\ StoreDone(last) => EntriesOf(files, last.key) = {path(last.key, last.state)}

\* A store that replaced an entry of its key stored under another state.
C1_Witness ==
    /\ StoreDone(last)
    /\ \E state \in ValidStates :
          state # last.state /\ path(last.key, state) \in last.unlinked

\* C2 as stated: after store(data, key, s1) then store(data2, key, s2),
\* has(key, s1) is false and has(key, s2) is true, for any s1 and s2.
C2_Original ==
    [][(StoreDone(last) /\ StoreDone(last') /\ last'.key = last.key)
         => (~has(files', last.key, last.state) /\ has(files', last.key, last'.state))]_vars

\* C2 amended: after store(data, key, s1) then store(data2, key, s2),
\* has(key, s2) is true, and has(key, s1) is false when s1 # s2.
C2_SecondStoreReplacesFirst ==
    [][(StoreDone(last) /\ StoreDone(last') /\ last'.key = last.key)
         => /\ has(files', last.key, last'.state)
            /\ (last'.state # last.state => ~has(files', last.key, last.state))]_vars

\* A store on a key whose entry of another state it has just unlinked.
C2_Witness ==
    /\ StoreDone(last)
    /\ last.state = <<"s">>
    /\ path(last.key, <<>>) \in last.unlinked
    /\ ~has(files, last.key, <<>>)

\* C3 as stated: has(key) without a state is true whenever key has an entry
\* of any state, and load(key) then returns that entry.
C3_Original ==
    /\ (last.op = "has" /\ last.state = <<>> /\ last.key \in ValidKeys)
         => (last.found <=> StoredStates(files, last.key) # {})
    /\ (last.op = "load" /\ last.state = <<>> /\ last.key \in ValidKeys)
         => (last.raised <=> StoredStates(files, last.key) = {})

\* C3 amended: a lookup without a state is a lookup of the empty state:
\* has(key) is true exactly when the entry of key was stored under the empty
\* state, and load(key) raises exactly when it was not.
C3_LookupOfEmptyState ==
    /\ (last.op = "has" /\ last.state = <<>> /\ last.key \in ValidKeys)
         => (last.found <=> StoredStates(files, last.key) = {<<>>})
    /\ (last.op = "load" /\ last.state = <<>> /\ last.key \in ValidKeys)
         => (last.raised <=> StoredStates(files, last.key) # {<<>>})

\* has(key) answered false for a key that has an entry of a non-empty state.
C3_Witness ==
    /\ last.op = "has"
    /\ last.state = <<>>
    /\ StoredStates(files, last.key) = {<<"s">>}
    /\ ~last.found

\* C4: a store whose key or state holds "-" raises, and leaves the directory
\* exactly as it was.
C4_RejectedStoreChangesNothing ==
    /\ [](last.op = "cache" =>
            (last.raised <=> (HasSeparator(last.key) \/ HasSeparator(last.state))))
    /\ [][(last'.op = "cache" /\ last'.raised) => files' = files]_vars

\* A rejected store on a directory in which its glob would have matched.
C4_Witness ==
    /\ last.op = "cache"
    /\ last.raised
    /\ path_all(files, last.key) # {}

\* C5: with one writer per key, at no point of a store are there two
\* entries of one key, and a reader that probes a key never finds two.
C5_ReaderNeverSeesTwoStates ==
    /\ \A key \in ValidKeys : Cardinality(EntriesOf(files, key)) <= 1
    /\ Cardinality(observed) <= 1

\* A reader found the file of a store that is still being written, after
\* that store unlinked nothing or the entry of another state.
C5_Witness ==
    \E w \in Writers :
        /\ wpc[w] = "flush"
        /\ wjob[w].state = <<"s">>
        /\ \A v \in Writers \ {w} : wpc[v] = "idle"
        /\ observed = {[state |-> <<"s">>, fmt |-> "partial"]}

\* C6: a store on key k leaves the entry of every other key present and
\* unchanged.
C6_StoreKeepsOtherKeys ==
    [][StoreDone(last')
         => \A name \in DOMAIN files :
               name \notin EntriesOf(files, last'.key)
                 => (name \in DOMAIN files' /\ files'[name] = files[name])]_vars

\* C7 as stated: load(key, state) directly after store(data, key, state)
\* returns data.
C7_Original ==
    [][(StoreDone(last) /\ last'.op = "load"
          /\ last'.key = last.key /\ last'.state = last.state)
         => (~last'.raised /\ last'.val = last.data)]_vars

\* C7 amended: load(key, state) directly after store(data, key, state) does
\* not raise; on an NdarrayCache it returns data.
C7_RoundTripOfNdarrayCache ==
    [][(StoreDone(last) /\ last'.op = "load"
          /\ last'.key = last.key /\ last'.state = last.state)
         => (~last'.raised /\ (kind = "ndarray" => last'.val = last.data))]_vars

\* A load that returned the non-zero datum stored just before.
C7_Witness ==
    /\ last.op = "load"
    /\ ~last.raised
    /\ kind = "ndarray"
    /\ last.val = 1

\* --------------------------------------------------------- Pipeline claims

\* The stages of the three lists in the order run() goes through them.
Expected == preprocessing \o processing \o postprocessing

Elements(seq) == {seq[i] : i \in 1..Len(seq)}

\* pre = 1, proc = 2, post = 3
PhaseOf(stage) ==
    IF stage \in Elements(preprocessing) THEN 1
    ELSE IF stage \in Elements(processing) THEN 2 ELSE 3

\* run() returns normally in this step.
RunCompletes == outcome' = "completed" /\ (ppc # "idle" \/ runs' # runs)

\* C8: run() calls every preprocessing stage before any processing stage and
\* every processing stage before any postprocessing stage, and the stages of
\* one kind in the order of their registration; a run that completes has
\* called every registered stage.
C8_PhaseOrderAndFifo ==
    /\ [](\A i, j \in 1..Len(trace) :
             i < j => \/ PhaseOf(trace[i]) < PhaseOf(trace[j])
                      \/ (PhaseOf(trace[i]) = PhaseOf(trace[j]) /\ trace[i] < trace[j]))
    /\ [](ppc # "idle" => trace = SubSeq(Expected, 1, Len(trace)))
    /\ [][RunCompletes => trace' = Expected']_vars

\* A completed run of the stages registered as pre, proc, pre.
C8_Witness ==
    /\ outcome = "completed"
    /\ preprocessing = <<1, 3>>
    /\ processing = <<2>>
    /\ trace = <<1, 3, 2>>

\* A stage returned in this step.
StageReturns == Len(trace') = Len(trace) + 1 /\ call'.kind \in {"pre", "proc", "post"}

\* C9: what a stage does to the records it is handed reaches the record set
\* of the pipeline (which is what the next stage is handed a copy of) only
\* through the value the stage returns.
C9_StagesGetDeepCopies ==
    [][StageReturns =>
         imgs' = CASE call'.kind = "pre" -> merge(imgs, call'.returned)
                   [] call'.kind = "proc" -> call'.returned
                   [] OTHER -> imgs]_vars

\* A postprocessing stage has set a field in the records it was handed, and
\* the records of the pipeline do not have it.
C9_Witness ==
    /\ call.kind = "post"
    /\ call.tamper = "inner"
    /\ DOMAIN imgs = {"img1", "img2"}
    /\ \A p \in DOMAIN imgs : "tamper" \notin DOMAIN imgs[p]

\* C10 as stated: the pipeline moves only Idle -> Running -> Completed or
\* Failed and never back: a run() call after the first calls no stage.
C10_Original == runs >= 2 => trace = <<>>

\* C10 amended: a run() call moves the pipeline Idle -> Running -> Completed
\* or Failed; the pipeline keeps no record of it, so a further run() call
\* runs again: it goes through the same phases and, when it completes, has
\* called every registered stage.
C10_EveryRunCallRuns ==
    /\ [][outcome' # outcome =>
            <<outcome, outcome'>> \in {<<"none", "running">>, <<"none", "failed">>,
                                       <<"running", "completed">>,
                                       <<"running", "failed">>,
                                       <<"completed", "running">>,
                                       <<"completed", "failed">>,
                                       <<"failed", "running">>}]_vars
    /\ [][ppc' # ppc =>
            <<ppc, ppc'>> \in {<<"idle", "preprocess">>, <<"preprocess", "process">>,
                               <<"process", "postprocess">>, <<"postprocess", "idle">>,
                               <<"preprocess", "idle">>, <<"process", "idle">>}]_vars
    /\ [][(RunCompletes /\ runs' >= 2) => trace' = Expected']_vars

\* The second run() call on a pipeline has completed and has called stages.
C10_Witness ==
    /\ runs = 2
    /\ ppc = "idle"
    /\ outcome = "completed"
    /\ Len(trace) >= 2

\* The input directory has no file, or has a file that is no image.
UnusableInput == input_dir = {} \/ "notes" \in input_dir

Rerun ==
    /\ invocations >= 2
    /\ before.result = "completed"
    /\ \A it \in photos : img_hash(it) \in DOMAIN before.face_cache
    /\ predictor = before.predictor

\* C12: an invocation on an unchanged input directory, after an invocation
\* that completed, runs the detector on no image and normalises no image
\* (every image is found in the face cache and in the normalized cache),
\* leaves both caches as they were, and completes.
C12_SecondInvocationRecomputesNothing ==
    Rerun =>
        /\ detected = {}
        /\ applied = <<>>
        /\ face_cache = before.face_cache
        /\ normalized_cache = before.normalized_cache
        /\ spc = "idle" => result = "completed"

\* The second invocation on a batch of two images has completed.
C12_Witness ==
    /\ Rerun
    /\ Cardinality(photos) = 2
    /\ spc = "idle"
    /\ result = "completed"

\* The images whose eyes are not the eyes the invocation before had.
EyesChanged ==
    {it \in (DOMAIN img_eyes) \cap (DOMAIN before.img_eyes) :
        img_eyes[it] # before.img_eyes[it]}

\* The invocation before completed, and this one has the eyes of every image
\* and has solved the batch: the eyes of exactly one image have changed.
OneEyesChanged ==
    /\ before.result = "completed"
    /\ solved.made
    /\ Cardinality(EyesChanged) = 1

\* The images this invocation has found in the normalized cache.
NormalizedHits == IF solved.made THEN (photos \ todo) \ DOMAIN applied ELSE {}

\* C13 as stated: when the eyes of exactly one image of the batch have
\* changed since the invocation before, no image of the batch is found in
\* the normalized cache.
C13_Original == OneEyesChanged => NormalizedHits = {}

\* C13 amended: when the eyes of exactly one image of the batch have changed
\* since the invocation before, that image is not found in the normalized
\* cache, and another image is found there only if the crop box of the batch
\* is the box its cached image was cropped to; when the crop box has changed,
\* no image of the batch is found.
C13_ChangedEyesInvalidateByState ==
    OneEyesChanged =>
        /\ EyesChanged \cap NormalizedHits = {}
        /\ \A it \in NormalizedHits :
              before.normalized_cache[img_hash(it)].box = solved.min_inner_boundaries

\* The eyes of b.jpg have changed, the crop box of the batch with them, and
\* both images of the batch have been normalised again.
C13_Witness ==
    /\ OneEyesChanged
    /\ photos = {"a.jpg", "b.jpg"}
    /\ before.normalized_cache["ha"].box # solved.min_inner_boundaries
    /\ DOMAIN applied = photos
    /\ result = "completed"

\* C14: in every batch the image with the smallest distance between its
\* eyes has the scale 1, and every image has the scale
\* min_eye_dist / eye_dists[it], which is at most 1.
C14_ScaleMonotonicity ==
    solved.made =>
        \A it \in photos :
            LET dist == eye_dists(img_eyes)
                smallest == \A other \in photos : dist[it] <= dist[other]
            IN  /\ smallest => solved.scales[it] = [num |-> 1, den |-> 1]
                /\ solved.scales[it].num <= solved.scales[it].den
                /\ \E least \in photos :
                      /\ \A other \in photos : dist[least] <= dist[other]
                      /\ solved.scales[it].num * dist[it]
                            = solved.scales[it].den * dist[least]

\* A batch of an image with its eyes 10 apart and one with its eyes 20
\* apart has been solved: the scales are 1 and 1/2.
C14_Witness ==
    /\ solved.made
    /\ photos = {"a.jpg", "b.jpg"}
    /\ solved.scales["a.jpg"] = [num |-> 1, den |-> 1]
    /\ solved.scales["b.jpg"] = [num |-> 1, den |-> 2]

\* C15: both components of every translation
\* max_scaled_eye_center - scaled_eye_centers[it] are at least 0, and the
\* scaled eye center of every image, moved by its translation, is
\* max_scaled_eye_center.
C15_TranslationNonNegative ==
    solved.made =>
        \A it \in photos : \A axis \in 1..2 :
            /\ solved.translations[it][axis] >= 0
            /\ solved.scaled_eye_centers[it][axis] + solved.translations[it][axis]
                  = solved.max_scaled_eye_center[axis]

\* A batch has been solved in which one image is moved along one axis and
\* the other along the other.
C15_Witness ==
    /\ solved.made
    /\ \E it \in photos, other \in photos :
          /\ solved.translations[it][1] > 0 /\ solved.translations[it][2] = 0
          /\ solved.translations[other][1] = 0 /\ solved.translations[other][2] > 0

\* Every image of the batch is rotated by less than 45 degrees.
AllBelow45 == \A it \in photos : ~angle_abs_ge_45(solved.angles[it])

\* The width and the height of a box <<left, top, right, bottom>>.
Width(box) == box[3] - box[1]

Height(box) == box[4] - box[2]

\* The overlap of the inner rectangles of the batch, before it is floored.
Overlap == rectangle_overlap({solved.img_inner_boundaries[it] : it \in photos})

\* C16 as stated: for every batch in which all rotations are below 45
\* degrees, the width and the height of the crop box are even and both are
\* greater than 0.
C16_Original ==
    (solved.made /\ AllBelow45) =>
        /\ Width(solved.min_inner_boundaries) % 2 = 0
        /\ Height(solved.min_inner_boundaries) % 2 = 0
        /\ Width(solved.min_inner_boundaries) > 0
        /\ Height(solved.min_inner_boundaries) > 0

\* C16 amended: for every batch the four edges of the crop box are even, and
\* so are its width and its height; the width (the height) is greater than
\* 0 whenever the overlap of the inner rectangles is at least 2 wide (high).
C16_CropBoxEven ==
    solved.made =>
        /\ \A edge \in 1..4 : solved.min_inner_boundaries[edge] % 2 = 0
        /\ Width(solved.min_inner_boundaries) % 2 = 0
        /\ Height(solved.min_inner_boundaries) % 2 = 0
        /\ Width(Overlap) >= 2 => Width(solved.min_inner_boundaries) > 0
        /\ Height(Overlap) >= 2 => Height(solved.min_inner_boundaries) > 0

\* A batch with a rotated image, all rotations below 45 degrees, has been
\* solved: the overlap has odd edges and the crop box is not empty.
C16_Witness ==
    /\ solved.made
    /\ AllBelow45
    /\ \E it \in photos : solved.angles[it] # <<1, 0>>
    /\ \E edge \in 1..4 : Overlap[edge] % 2 = 1
    /\ Width(solved.min_inner_boundaries) > 0
    /\ Height(solved.min_inner_boundaries) > 0

\* C17: an empty crop box (right <= left or bottom <= top) is fatal: the
\* invocation fails with a UserException, and no image is cropped to an
\* empty box or cached under one.
C17_EmptyCropBoxIsFatal ==
    (solved.made /\ is_empty(solved.min_inner_boundaries)) =>
        /\ applied = <<>>
        /\ spc = "idle" => result = "user_error"
        /\ \A it \in photos :
              (img_hash(it) \in DOMAIN normalized_cache /\ it \notin NormalizedHits)
                  => ~is_empty(normalized_cache[img_hash(it)].box)

\* C18: when the computed rotation of some image is 45 degrees or more, the
\* invocation fails with a UserException, raised before any crop computation:
\* no crop box is ever computed for eyes of which one rotation is 45 degrees
\* or more, and at the raise no crop box exists and no image has been cropped.
C18_RotationRejectedBeforeCrop ==
    /\ solved.made => \A it \in photos : ~angle_abs_ge_45(solved.angles[it])
    /\ (\E it \in DOMAIN raised : raised[it] = "rotation") =>
          (result = "user_error" /\ ~solved.made /\ applied = <<>>)

\* The images of this invocation with more than one detected face and no
\* override.
TooManyFaces ==
    {it \in detected : /\ Len(Photo[it].faces[before.predictor]) > 1
                       /\ it \notin DOMAIN overrides}

\* C19: an image with more than one detected face and no override makes face
\* finding fail with a UserException; the annotated image is in error_dir
\* under the image's name when the exception is raised, and the face cache
\* holds nothing for the image.
C19_TooManyFacesWritesDebugImage ==
    \A it \in TooManyFaces :
        /\ it \in DOMAIN raised /\ raised[it] = "too_many"
        /\ it \in error_dir
        /\ img_hash(it) \notin DOMAIN face_cache
        /\ spc = "idle" => result = "user_error"

C19_Witness ==
    /\ photos = {"a.jpg", "f.jpg"}
    /\ overrides = <<>>
    /\ "f.jpg" \in TooManyFaces
    /\ "a.jpg" \in DOMAIN img_eyes
    /\ spc = "idle"
    /\ result = "user_error"
    /\ error_dir = {"f.jpg"}

\* C20: when no face is detected in an image, an annotated image of it is in
\* error_dir at the moment the UserException is raised.
C20_NoFaceWritesDebugImage ==
    \A it \in DOMAIN raised : raised[it] = "not_enough" => it \in error_dir

\* C28: once the eyes of an image are in the face cache, a later invocation
\* returns the cached eyes: the detector does not run on the image and its
\* override is not consulted, also if the override was changed or removed.
C28_CachedEyesIgnoreOverride ==
    \A it \in photos :
        (invocations >= 1 /\ img_hash(it) \in DOMAIN before.face_cache) =>
            /\ it \notin detected
            /\ it \in DOMAIN raised => raised[it] = "rotation"
            /\ it \in DOMAIN img_eyes => img_eyes[it] = before.face_cache[img_hash(it)]

C28_Witness ==
    /\ invocations = 2
    /\ spc = "idle"
    /\ result = "completed"
    /\ overrides = ("f.jpg" :> 2)
    /\ "f.jpg" \in DOMAIN img_eyes
    /\ img_eyes["f.jpg"] = Photo["f.jpg"].faces[predictor][1]
    /\ img_eyes["f.jpg"] # selected_face(Photo["f.jpg"].faces[predictor], "f.jpg")

\* C29: the crop box applied to the images lies inside the inscribed
\* rectangle of every image of the batch.
C29_CropBoxInsideEveryRectangle ==
    \A it \in DOMAIN applied : \A other \in photos :
        LET box == applied[it]
            inner == solved.img_inner_boundaries[other]
        IN  /\ box[1] >= inner[1]
            /\ box[2] >= inner[2]
            /\ box[3] <= inner[3]
            /\ box[4] <= inner[4]

\* ----------------------------------------------------------- frame claims
\* The processing phase of the run is over.
Processed == ppc = "postprocess" \/ (ppc = "idle" /\ outcome = "completed")

\* C25: after the processing phase the frames directory holds exactly one
\* frame per record of the run, at the indices 0 .. n-1; the frame at index i
\* is the record with i records before it in natural sort order. Frames of
\* an earlier run are gone.
C25_FramesAreDenseAndSorted ==
    Processed =>
        /\ DOMAIN frames_dir = 0 .. (Cardinality(DOMAIN imgs) - 1)
        /\ \A idx \in DOMAIN frames_dir :
              /\ frames_dir[idx] \in DOMAIN imgs
              /\ Cardinality({q \in DOMAIN imgs :
                                NatRank(q) < NatRank(frames_dir[idx])}) = idx
        /\ \A p \in DOMAIN imgs : \E idx \in DOMAIN frames_dir : frames_dir[idx] = p

C25_Witness ==
    /\ runs = 2
    /\ ppc = "postprocess"
    /\ DOMAIN imgs = {"img1", "img2"}
    /\ frames_dir = (0 :> "img1") @@ (1 :> "img2")

\* A turn of the loop of Pipeline.preprocess whose stage has returned.
PreprocessTurn == ppc = "preprocess" /\ ppc' = "preprocess" /\ pidx' = pidx + 1

\* The stage's result sets the field of the record.
Returned(returned, p, f) == p \in DOMAIN returned /\ f \in DOMAIN returned[p]

\* C27: a preprocessing stage's result is merged additively: every record
\* of before the stage is there after it, and every field the stage did not
\* return has the value it had.
C27_PreprocessMergesAdditively ==
    [][PreprocessTurn =>
          \A p \in DOMAIN imgs :
              /\ p \in DOMAIN imgs'
              /\ \A f \in DOMAIN imgs[p] :
                    ~Returned(call'.returned, p, f) =>
                        (f \in DOMAIN imgs'[p] /\ imgs'[p][f] = imgs[p][f])]_vars

C27_Witness ==
    /\ ppc = "preprocess"
    /\ pidx = 3
    /\ call.kind = "pre" /\ call.stage = 2
    /\ "img1" \in DOMAIN imgs
    /\ imgs["img1"] = [hash |-> 1, eyes |-> 2]

\* ------------------------------------------------------------- main claims
\* C21: a UserException raised in the run is caught by main, its message is
\* printed, and the program ends with an exit status other than 0.
C21_UserExceptionExitsNonZero ==
    (mpc = "idle" /\ exception = "UserException") =>
        (stderr = "Error" /\ exit_status > 0)

\* C22: when a run has ended with a UserException raised before the muxer
\* succeeded, there is no file at output_path.
C22_FailedRunLeavesNoVideo ==
    (mpc = "idle" /\ exception = "UserException") => output_path = "absent"

\* The layer defines the setting.
Defines(layer, section, setting) ==
    section \in DOMAIN layer /\ setting \in DOMAIN layer[section]

\* The settings of the configuration.
Settings == {<<section, setting>> \in {"demux", "caption"} \X {"enabled", "fps"} :
                Defines(cfg_default, section, setting)}

\* C26: the loaded value of a setting that config.py and config_dev.py both
\* define is config_dev.py's, and a setting neither defines has the default.
C26_ConfigDevOverridesConfig ==
    mains >= 1 =>
        \A s \in Settings :
            /\ (Defines(cfg_user, s[1], s[2]) /\ Defines(cfg_dev, s[1], s[2]))
                  => cfg[s[1]][s[2]] = cfg_dev[s[1]][s[2]]
            /\ (~Defines(cfg_user, s[1], s[2]) /\ ~Defines(cfg_dev, s[1], s[2]))
                  => cfg[s[1]][s[2]] = cfg_default[s[1]][s[2]]

\* ------------------------------------------------------------- pool claims
\* What find_face returns for the image, whatever the other tasks do: the
\* eyes the cache held when the stage started, else the eyes of the face
\* selected in the image.
ExpectedRaise(it) ==
    IF task_hash(it) \in DOMAIN before.face_cache THEN "none"
    ELSE find_face_raises(task_faces(it), it)

ExpectedEyes(it) ==
    IF task_hash(it) \in DOMAIN before.face_cache
    THEN before.face_cache[task_hash(it)]
    ELSE selected_face(task_faces(it), it)

\* C23: the result of the stage does not depend on the schedule of the
\* tasks: it returns exactly when no image's own task raises, and it returns
\* for every path the eyes computed for that image.
C23_ResultIndependentOfSchedule ==
    (invocations >= 1 /\ spc = "idle") =>
        /\ result = "completed" <=> \A it \in photos : ExpectedRaise(it) = "none"
        /\ result = "completed" =>
              \A it \in photos : img_eyes[it] = ExpectedEyes(it)

\* C24: no two tasks are inside face_cache.cache for the same hash at the
\* same time.
C24_OneWriterPerHash ==
    \A it1 \in DOMAIN tasks : \A it2 \in DOMAIN tasks :
        (it1 # it2 /\ tasks[it1].pc = "write" /\ tasks[it2].pc = "write")
            => task_hash(it1) # task_hash(it2)

\* ----------------------------------------------------- failed store claim
\* C30: a store whose write fails after the validation has removed the entry
\* of its key and does not restore it: afterwards has(key, s) is false for
\* every state s, and the entries of the other keys are as they were.
C30_FailedStoreRemovesOnlyItsKey ==
    [][last'.op = "cache_failed" =>
          /\ \A state \in States : ~has(files', last'.key, state)
          /\ \A name \in DOMAIN files :
                name \notin EntriesOf(files, last'.key)
                    => (name \in DOMAIN files' /\ files'[name] = files[name])]_vars

====
